---- MODULE Spec2Model ----
(***************************************************************************)
(* NTLM negotiation session of libfreerdp/core/gateway/ntlm.c.             *)
(*                                                                         *)
(* The state is one rdpNtlm structure (variable ntlm, one record field per *)
(* struct member the operations read or write), the heap blocks it points  *)
(* to, and the security provider the session calls through its function    *)
(* table.  The provider's answers (status codes, allocation results) are   *)
(* inputs of the actions.  History variables record the last call and what *)
(* the provider was asked to do, so that the properties can speak about    *)
(* them.                                                                   *)
(***************************************************************************)
EXTENDS Integers, Sequences, FiniteSets, TLC

(* ---- bounds ---- *)
MaxRounds == 2      \* ntlm_authenticate calls per session
MaxInputs == 1      \* buffers handed to ntlm_client_set_input_buffer
ULongBits == 3      \* width of ULONG, scaled down

(* ---- values ---- *)
NULL == 0
ULONG_MAX == (2 ^ ULongBits) - 1
CbMaxToken == 4
CbMaxSignature == 16
BindingsLength == 2

SEC_E_OK == "SEC_E_OK"
SEC_I_CONTINUE_NEEDED == "SEC_I_CONTINUE_NEEDED"
SEC_I_COMPLETE_NEEDED == "SEC_I_COMPLETE_NEEDED"
SEC_I_COMPLETE_AND_CONTINUE == "SEC_I_COMPLETE_AND_CONTINUE"
SEC_E_INVALID_TOKEN == "SEC_E_INVALID_TOKEN"

\* the statuses a provider call can return; SEC_E_INVALID_TOKEN stands for
\* every status that is none of the four the code names
SecurityStatus == {SEC_E_OK, SEC_I_CONTINUE_NEEDED, SEC_I_COMPLETE_NEEDED,
                   SEC_I_COMPLETE_AND_CONTINUE, SEC_E_INVALID_TOKEN}

\* what a call whose status is only compared with SEC_E_OK can return
OkOrError == {SEC_E_OK, SEC_E_INVALID_TOKEN}
\* what QueryContextAttributes can return
QueryStatuses == {SEC_E_OK, SEC_I_COMPLETE_AND_CONTINUE, SEC_E_INVALID_TOKEN}

ISC_REQ_CONFIDENTIALITY == "ISC_REQ_CONFIDENTIALITY"
ISC_REQ_USE_DCE_STYLE == "ISC_REQ_USE_DCE_STYLE"
ISC_REQ_DELEGATE == "ISC_REQ_DELEGATE"
ISC_REQ_MUTUAL_AUTH == "ISC_REQ_MUTUAL_AUTH"
ISC_REQ_REPLAY_DETECT == "ISC_REQ_REPLAY_DETECT"
ISC_REQ_SEQUENCE_DETECT == "ISC_REQ_SEQUENCE_DETECT"

SECBUFFER_NONE == "0"
SECBUFFER_TOKEN == "SECBUFFER_TOKEN"
SECBUFFER_CHANNEL_BINDINGS == "SECBUFFER_CHANNEL_BINDINGS"

\* the (data, size) pairs a caller passes to ntlm_client_set_input_buffer:
\* data is NULL or the address of a caller buffer
CALLER_DATA == 1
InputArgs == {<<NULL, 1>>, <<CALLER_DATA, 0>>, <<CALLER_DATA, 1>>}
\* the Bindings argument of ntlm_client_init: NULL or the caller's region
CALLER_BINDINGS == 1
BindingsPointers == {NULL, CALLER_BINDINGS}
\* the (Message, sequence) pairs a caller passes to ntlm_client_encrypt:
\* Message is NULL or a caller descriptor, sequence fits a ULONG or does not
CALLER_MESSAGE == 1
EncryptArgs == {<<NULL, 1>>, <<CALLER_MESSAGE, 1>>, <<CALLER_MESSAGE, ULONG_MAX + 1>>}
UINT16_MAX == 65535

VARIABLES
  ntlm,             \* the rdpNtlm structure
  alive,            \* the structure is allocated (ntlm_new .. ntlm_free)
  initCalled,       \* ntlm_client_init has been called on it
  inBufs,           \* heap: blocks stored in inputBuffer[0].pvBuffer, by id
  outBufs,          \* heap: blocks malloc'ed for outputBuffer[0], by id
  prov,             \* the provider's side: handles it has issued
  released,         \* the provider release calls issued, in order
  call,             \* the last operation called, its arguments and result
  bContinueNeeded,  \* the caller's *pbContinueNeeded
  sawComplete,      \* an earlier advance returned TRUE, *pbContinueNeeded FALSE
  rounds,           \* ntlm_authenticate calls so far
  firstContinue     \* the first ntlm_authenticate call returned TRUE with
                    \* *pbContinueNeeded TRUE

vars == <<ntlm, alive, initCalled, inBufs, outBufs, prov, released, call,
          bContinueNeeded, sawComplete, rounds, firstContinue>>

ZeroSecBuffer == [BufferType |-> SECBUFFER_NONE, cbBuffer |-> 0, pvBuffer |-> NULL]

\* struct rdp_ntlm after calloc
rdp_ntlm == [http |-> FALSE, context |-> NULL, cbMaxToken |-> 0, fContextReq |-> {},
             inputBuffer0 |-> ZeroSecBuffer, inputBuffer1 |-> ZeroSecBuffer,
             outputBuffer0 |-> ZeroSecBuffer,
             haveContext |-> FALSE, haveInputBuffer |-> FALSE,
             ServicePrincipalName |-> NULL, credentials |-> NULL,
             pPackageInfo |-> NULL, table |-> NULL, CompleteAuthToken |-> FALSE,
             identity |-> NULL, ContextSizes |-> 0, Bindings |-> NULL]

NoInput == [cBuffers |-> 0, b0 |-> ZeroSecBuffer, b1 |-> ZeroSecBuffer]
NoISC == [called |-> FALSE, phContext |-> FALSE, handle |-> NULL,
          priorContexts |-> 0, pInput |-> NoInput, fContextReq |-> {},
          completed |-> FALSE, cStatus |-> "none",
          queried |-> FALSE, qStatus |-> "none"]
NoEncrypt == [invoked |-> FALSE, MessageSeqNo |-> 0, ub |-> FALSE]
NoCall == [op |-> "none", ret |-> FALSE, status |-> "none", isc |-> NoISC,
           data |-> NULL, size |-> 0, sequence |-> 0, enc |-> NoEncrypt,
           relStatus |-> <<>>]

\* ntlm_new: calloc(1, sizeof(rdpNtlm))
Init ==
  /\ ntlm = rdp_ntlm
  /\ alive = TRUE
  /\ initCalled = FALSE
  /\ inBufs = <<>>
  /\ outBufs = <<>>
  /\ prov = [credAcquired |-> FALSE, contexts |-> 0, state |-> "negotiating"]
  /\ released = <<>>
  /\ call = NoCall
  /\ bContinueNeeded = FALSE
  /\ sawComplete = FALSE
  /\ rounds = 0
  /\ firstContinue = FALSE

(* ---- helpers ---- *)

\* cast_from_size_: a size_t that does not fit a ULONG becomes 0
cast_from_size_(size) == IF size > ULONG_MAX THEN 0 ELSE size

\* free(p) on a block of a heap; free(NULL) does nothing
Free(heap, p) ==
  IF p = NULL THEN heap ELSE [heap EXCEPT ![p].frees = @ + 1]

\* flags that ask for confidentiality in both modes
RequestFlags_AlwaysConfidential(http) ==
  IF http
    THEN {ISC_REQ_CONFIDENTIALITY}
    ELSE {ISC_REQ_CONFIDENTIALITY, ISC_REQ_USE_DCE_STYLE, ISC_REQ_DELEGATE,
          ISC_REQ_MUTUAL_AUTH, ISC_REQ_REPLAY_DETECT, ISC_REQ_SEQUENCE_DETECT}

\* the flags ntlm_client_init requests, by mode
RequestFlags(http) ==
  IF http
    THEN {ISC_REQ_CONFIDENTIALITY}
    ELSE {ISC_REQ_USE_DCE_STYLE, ISC_REQ_DELEGATE, ISC_REQ_MUTUAL_AUTH,
          ISC_REQ_REPLAY_DETECT, ISC_REQ_SEQUENCE_DETECT}

Called(op, ret) == [NoCall EXCEPT !.op = op, !.ret = ret]

(* ---- ntlm_client_init ---- *)

\* tableOk: InitSecurityInterfaceEx returned a table; cat: the table has a
\* CompleteAuthToken entry; pkgStatus, credStatus: what QuerySecurityPackageInfo
\* and AcquireCredentialsHandle return
ntlm_client_init(http, Bindings, tableOk, cat, pkgStatus, credStatus) ==
  /\ alive
  /\ ~initCalled
  /\ call.op = "none"     \* initialize, when called, is the first call
  /\ initCalled' = TRUE
  /\ LET n1 == [ntlm EXCEPT !.http = http, !.Bindings = Bindings,
                            !.table = IF tableOk THEN 1 ELSE NULL,
                            !.CompleteAuthToken = tableOk /\ cat]
         n2 == [n1 EXCEPT !.identity = 1]
         n3 == [n2 EXCEPT !.pPackageInfo = 1, !.cbMaxToken = CbMaxToken]
         n4 == [n3 EXCEPT !.credentials = 1,
                          !.haveContext = FALSE, !.haveInputBuffer = FALSE,
                          !.inputBuffer0 = ZeroSecBuffer,
                          !.outputBuffer0 = ZeroSecBuffer,
                          !.ContextSizes = 0,
                          !.fContextReq = RequestFlags(http)]
     IN  IF ~tableOk
           THEN /\ ntlm' = n1
                /\ call' = Called("init", FALSE)
                /\ UNCHANGED prov
           ELSE IF pkgStatus # SEC_E_OK
             THEN /\ ntlm' = n2
                  /\ call' = [Called("init", FALSE) EXCEPT !.status = pkgStatus]
                  /\ UNCHANGED prov
             ELSE IF credStatus # SEC_E_OK
               THEN /\ ntlm' = n3
                    /\ call' = [Called("init", FALSE) EXCEPT !.status = credStatus]
                    /\ UNCHANGED prov
               ELSE /\ ntlm' = n4
                    /\ call' = [Called("init", TRUE) EXCEPT !.status = credStatus]
                    /\ prov' = [prov EXCEPT !.credAcquired = TRUE]
  /\ UNCHANGED <<alive, inBufs, outBufs, released, bContinueNeeded, sawComplete, rounds, firstContinue>>

(* ---- ntlm_client_set_input_buffer ---- *)

\* the argument check without its test of the size
InvalidInput_NoSizeCheck(data, size) == (data = NULL)

\* the argument check of ntlm_client_set_input_buffer (ntlm itself is not NULL)
InvalidInput(data, size) == (data = NULL) \/ (size = 0)

ntlm_client_set_input_buffer(copy, data, size, mallocOk) ==
  /\ alive
  /\ IF InvalidInput(data, size)
       THEN /\ call' = [Called("set_input_buffer", FALSE) EXCEPT
                          !.data = data, !.size = size]
            /\ UNCHANGED <<ntlm, inBufs>>
       ELSE /\ Len(inBufs) < MaxInputs
            /\ LET cb == cast_from_size_(size)
                   id == Len(inBufs) + 1
               IN  IF copy /\ ~mallocOk
                     THEN /\ ntlm' = [ntlm EXCEPT !.inputBuffer0.cbBuffer = cb,
                                                  !.inputBuffer0.pvBuffer = NULL]
                          /\ call' = [Called("set_input_buffer", FALSE) EXCEPT
                                        !.data = data, !.size = size]
                          /\ UNCHANGED inBufs
                     ELSE /\ ntlm' = [ntlm EXCEPT !.inputBuffer0.cbBuffer = cb,
                                                  !.inputBuffer0.pvBuffer = id]
                          /\ inBufs' = Append(inBufs, [copy |-> copy, frees |-> 0])
                          /\ call' = [Called("set_input_buffer", TRUE) EXCEPT
                                        !.data = data, !.size = size]
  /\ UNCHANGED <<alive, initCalled, outBufs, prov, released, bContinueNeeded,
                 sawComplete, rounds, firstContinue>>

(* ---- the security provider ---- *)

\* the statuses the code treats as a step of the handshake that worked
NonFailure(status) ==
  status \in {SEC_E_OK, SEC_I_CONTINUE_NEEDED, SEC_I_COMPLETE_NEEDED,
              SEC_I_COMPLETE_AND_CONTINUE}

\* InitializeSecurityContext creates a context when it is given none and the
\* step works; otherwise it updates the one it is given
CreatesContext(phContext, status) == (~phContext) /\ NonFailure(status)

\* where the provider's handshake stands after answering status
ProviderState(state, status) ==
  IF state # "negotiating" THEN state
  ELSE IF status \in {SEC_E_OK, SEC_I_COMPLETE_NEEDED} THEN "complete"
  ELSE IF ~NonFailure(status) THEN "failed"
  ELSE "negotiating"

\* a provider that keeps to the handshake answers a call made after the
\* handshake completed or failed with an error
InSequenceStatuses(state) ==
  IF state = "negotiating" THEN SecurityStatus ELSE {SEC_E_INVALID_TOKEN}

(* ---- ntlm_authenticate ---- *)

\* a round that forgets the previous round's output buffer
FreeOutputBuffer_Skip(heap, pvBuffer) == heap

\* free of the previous round's output buffer at the start of a round
FreeOutputBuffer(heap, pvBuffer) == Free(heap, pvBuffer)

\* a descriptor that fills the second buffer but does not count it
InputDescriptor_OneBuffer(n) ==
  LET b0 == [n.inputBuffer0 EXCEPT !.BufferType = SECBUFFER_TOKEN]
      b1 == [BufferType |-> SECBUFFER_CHANNEL_BINDINGS,
             cbBuffer |-> BindingsLength, pvBuffer |-> n.Bindings]
  IN  IF n.Bindings # NULL
        THEN [cBuffers |-> 1, b0 |-> b0, b1 |-> b1]
        ELSE [cBuffers |-> 1, b0 |-> b0, b1 |-> n.inputBuffer1]

\* the input descriptor built when haveInputBuffer is set
InputDescriptor(n) ==
  LET b0 == [n.inputBuffer0 EXCEPT !.BufferType = SECBUFFER_TOKEN]
      b1 == [BufferType |-> SECBUFFER_CHANNEL_BINDINGS,
             cbBuffer |-> BindingsLength, pvBuffer |-> n.Bindings]
  IN  IF n.Bindings # NULL
        THEN [cBuffers |-> 2, b0 |-> b0, b1 |-> b1]
        ELSE [cBuffers |-> 1, b0 |-> b0, b1 |-> n.inputBuffer1]

\* a block that also handles SEC_I_CONTINUE_NEEDED
Classify_ContinueCompletes(status, hasCAT, cStatus, qStatus) ==
  IF status \in {SEC_I_COMPLETE_AND_CONTINUE, SEC_I_COMPLETE_NEEDED, SEC_E_OK,
                 SEC_I_CONTINUE_NEEDED}
    THEN IF (status \notin {SEC_E_OK, SEC_I_CONTINUE_NEEDED}) /\ hasCAT
            /\ (cStatus # SEC_E_OK)
           THEN "return"
           ELSE IF qStatus # SEC_E_OK
             THEN "return"
             ELSE IF qStatus = SEC_I_COMPLETE_NEEDED THEN SEC_E_OK
                  ELSE IF qStatus = SEC_I_COMPLETE_AND_CONTINUE
                    THEN SEC_I_CONTINUE_NEEDED
                    ELSE qStatus
    ELSE status

\* the value of status after the block that handles the statuses that
\* complete a step; "return" when the block returns FALSE
Classify(status, hasCAT, cStatus, qStatus) ==
  IF status \in {SEC_I_COMPLETE_AND_CONTINUE, SEC_I_COMPLETE_NEEDED, SEC_E_OK}
    THEN IF (status # SEC_E_OK) /\ hasCAT /\ (cStatus # SEC_E_OK)
           THEN "return"
           ELSE IF qStatus # SEC_E_OK
             THEN "return"
             ELSE \* status now holds the result of QueryContextAttributes
                  IF qStatus = SEC_I_COMPLETE_NEEDED THEN SEC_E_OK
                  ELSE IF qStatus = SEC_I_COMPLETE_AND_CONTINUE
                    THEN SEC_I_CONTINUE_NEEDED
                    ELSE qStatus
    ELSE status

\* the round calls CompleteAuthToken
CompletesToken(status, hasCAT) ==
  (status \in {SEC_I_COMPLETE_AND_CONTINUE, SEC_I_COMPLETE_NEEDED}) /\ hasCAT

\* a round that asks for the sizes after every status that is not an error
QueriesSizes_Continue(status, hasCAT, cStatus) ==
  /\ status \in {SEC_I_COMPLETE_AND_CONTINUE, SEC_I_COMPLETE_NEEDED, SEC_E_OK,
                 SEC_I_CONTINUE_NEEDED}
  /\ ~(CompletesToken(status, hasCAT) /\ (cStatus # SEC_E_OK))

\* the round calls QueryContextAttributes
QueriesSizes(status, hasCAT, cStatus) ==
  /\ status \in {SEC_I_COMPLETE_AND_CONTINUE, SEC_I_COMPLETE_NEEDED, SEC_E_OK}
  /\ ~(CompletesToken(status, hasCAT) /\ (cStatus # SEC_E_OK))

\* a round that keeps the pointer of the input buffer it freed
ConsumeInput_KeepPointer(n) ==
  [n EXCEPT !.haveInputBuffer = TRUE, !.haveContext = TRUE]

\* the end of a round that worked: the input buffer is released and both
\* flags are set
ConsumeInput(n) ==
  [n EXCEPT !.inputBuffer0.pvBuffer = IF n.haveInputBuffer THEN NULL ELSE @,
            !.haveInputBuffer = TRUE,
            !.haveContext = TRUE]

\* mallocOk: malloc of the output buffer worked; status, cStatus, qStatus: what
\* InitializeSecurityContext, CompleteAuthToken and QueryContextAttributes return
ntlm_authenticate(mallocOk, status, cStatus, qStatus) ==
  /\ alive
  /\ rounds < MaxRounds
  /\ rounds' = rounds + 1
  /\ IF ntlm.table = NULL
       THEN /\ call' = Called("authenticate", FALSE)
            /\ UNCHANGED <<ntlm, inBufs, outBufs, prov, bContinueNeeded, sawComplete,
                           firstContinue>>
       ELSE
          LET heap1 == FreeOutputBuffer(outBufs, ntlm.outputBuffer0.pvBuffer)
              newOut == Len(outBufs) + 1
              n1 == [ntlm EXCEPT !.outputBuffer0 =
                        [BufferType |-> SECBUFFER_TOKEN, cbBuffer |-> ntlm.cbMaxToken,
                         pvBuffer |-> IF mallocOk THEN newOut ELSE NULL]]
              desc == InputDescriptor(n1)
              n2 == IF n1.haveInputBuffer
                      THEN [n1 EXCEPT !.inputBuffer0 = desc.b0, !.inputBuffer1 = desc.b1]
                      ELSE n1
              creates == CreatesContext(n2.haveContext, status)
              n3 == IF creates THEN [n2 EXCEPT !.context = prov.contexts + 1] ELSE n2
              isc == [called |-> TRUE, phContext |-> n2.haveContext,
                      handle |-> IF n2.haveContext THEN n2.context ELSE NULL,
                      priorContexts |-> prov.contexts,
                      pInput |-> IF n2.haveInputBuffer THEN desc ELSE NoInput,
                      fContextReq |-> n2.fContextReq,
                      completed |-> CompletesToken(status, n2.CompleteAuthToken),
                      cStatus |-> IF CompletesToken(status, n2.CompleteAuthToken)
                                    THEN cStatus ELSE "none",
                      queried |-> QueriesSizes(status, n2.CompleteAuthToken, cStatus),
                      qStatus |-> IF QueriesSizes(status, n2.CompleteAuthToken, cStatus)
                                    THEN qStatus ELSE "none"]
              prov1 == [prov EXCEPT !.contexts = IF creates THEN @ + 1 ELSE @,
                                    !.state = ProviderState(@, status)]
              final == Classify(status, n3.CompleteAuthToken, cStatus, qStatus)
              n4 == IF isc.queried /\ (qStatus = SEC_E_OK)
                      THEN [n3 EXCEPT !.ContextSizes = CbMaxSignature] ELSE n3
              n5 == ConsumeInput(n4)
              cont == (final = SEC_I_CONTINUE_NEEDED)
          IN  IF ~mallocOk
                THEN /\ ntlm' = n1
                     /\ outBufs' = heap1
                     /\ call' = Called("authenticate", FALSE)
                     /\ UNCHANGED <<inBufs, prov, bContinueNeeded, sawComplete,
                                    firstContinue>>
                ELSE /\ outBufs' = Append(heap1, [frees |-> 0])
                     /\ prov' = prov1
                     /\ IF final = "return"
                          THEN /\ ntlm' = n4
                               /\ call' = [Called("authenticate", FALSE) EXCEPT
                                             !.status = status, !.isc = isc]
                               /\ UNCHANGED <<inBufs, bContinueNeeded, sawComplete,
                                              firstContinue>>
                          ELSE /\ ntlm' = n5
                               /\ inBufs' = IF n4.haveInputBuffer
                                              THEN Free(inBufs, n4.inputBuffer0.pvBuffer)
                                              ELSE inBufs
                               /\ bContinueNeeded' = cont
                               /\ sawComplete' = (sawComplete \/ ~cont)
                               /\ firstContinue' = IF rounds = 0 THEN cont
                                                                 ELSE firstContinue
                               /\ call' = [Called("authenticate", TRUE) EXCEPT
                                             !.status = status, !.isc = isc]
  /\ UNCHANGED <<alive, initCalled, released>>

(* ---- ntlm_free ---- *)

\* a teardown that stops at the first release that fails
ntlm_client_uninit_releases_StopOnError(n, credStatus, pkgStatus, ctxStatus) ==
  IF n.table # NULL
    THEN IF credStatus # SEC_E_OK THEN <<"FreeCredentialsHandle">>
         ELSE IF pkgStatus # SEC_E_OK
           THEN <<"FreeCredentialsHandle", "FreeContextBuffer">>
           ELSE <<"FreeCredentialsHandle", "FreeContextBuffer",
                  "DeleteSecurityContext">>
    ELSE <<>>

\* the provider releases ntlm_client_uninit issues when the table is bound;
\* their statuses credStatus, pkgStatus, ctxStatus are only logged
ntlm_client_uninit_releases(n, credStatus, pkgStatus, ctxStatus) ==
  IF n.table # NULL
    THEN <<"FreeCredentialsHandle", "FreeContextBuffer", "DeleteSecurityContext">>
    ELSE <<>>

ntlm_client_uninit(n) ==
  [n EXCEPT !.identity = NULL, !.ServicePrincipalName = NULL, !.table = NULL]

\* credStatus, pkgStatus, ctxStatus: what FreeCredentialsHandle,
\* FreeContextBuffer and DeleteSecurityContext return
ntlm_free(credStatus, pkgStatus, ctxStatus) ==
  /\ alive
  /\ outBufs' = Free(outBufs, ntlm.outputBuffer0.pvBuffer)
  /\ released' = released \o
                   ntlm_client_uninit_releases(ntlm, credStatus, pkgStatus, ctxStatus)
  /\ ntlm' = ntlm_client_uninit([ntlm EXCEPT !.outputBuffer0.pvBuffer = NULL])
  /\ alive' = FALSE
  /\ call' = [Called("free", TRUE) EXCEPT
                !.relStatus = IF ntlm.table # NULL
                                THEN <<credStatus, pkgStatus, ctxStatus>>
                                ELSE <<>>]
  /\ UNCHANGED <<initCalled, inBufs, prov, bContinueNeeded, sawComplete, rounds, firstContinue>>

(* ---- ntlm_client_encrypt ---- *)

\* encStatus: what EncryptMessage returns.  With no table bound the call
\* through ntlm->table dereferences NULL: the behaviour is undefined, and
\* ubInvoked, encStatus choose what happens
ntlm_client_encrypt(Message, sequence, encStatus, ubInvoked) ==
  /\ alive
  /\ LET s == cast_from_size_(sequence)
     IN  IF Message = NULL
           THEN call' = [Called("encrypt", FALSE) EXCEPT !.sequence = sequence]
           ELSE IF ntlm.table = NULL
             THEN call' = [Called("encrypt", encStatus = SEC_E_OK) EXCEPT
                             !.sequence = sequence,
                             !.enc = [invoked |-> ubInvoked,
                                      MessageSeqNo |-> IF ubInvoked THEN s ELSE 0,
                                      ub |-> TRUE]]
             ELSE call' = [Called("encrypt", encStatus = SEC_E_OK) EXCEPT
                             !.status = encStatus,
                             !.sequence = sequence,
                             !.enc = [invoked |-> TRUE, MessageSeqNo |-> s,
                                      ub |-> FALSE]]
  /\ UNCHANGED <<ntlm, alive, initCalled, inBufs, outBufs, prov, released,
                 bContinueNeeded, sawComplete, rounds, firstContinue>>

(* ---- ntlm_client_query_auth_size ---- *)

\* -1 when the signature size does not fit 16 bits
ntlm_client_get_context_max_size(n) ==
  IF n.ContextSizes > UINT16_MAX THEN -1 ELSE n.ContextSizes

\* qStatus: what QueryContextAttributes returns
ntlm_client_query_auth_size(qStatus) ==
  /\ alive
  /\ IF ntlm.table = NULL
       THEN /\ call' = [Called("query_auth_size", FALSE) EXCEPT !.size = -1]
            /\ UNCHANGED ntlm
       ELSE IF qStatus # SEC_E_OK
         THEN /\ call' = [Called("query_auth_size", FALSE) EXCEPT
                            !.status = qStatus, !.size = -1]
              /\ UNCHANGED ntlm
         ELSE LET n1 == [ntlm EXCEPT !.ContextSizes = CbMaxSignature]
                  r == ntlm_client_get_context_max_size(n1)
              IN  /\ ntlm' = n1
                  /\ call' = [Called("query_auth_size", r >= 0) EXCEPT
                                !.status = qStatus, !.size = r]
  /\ UNCHANGED <<alive, initCalled, inBufs, outBufs, prov, released,
                 bContinueNeeded, sawComplete, rounds, firstContinue>>

(* ---- specifications ---- *)

\* The answers of the calls a round makes are inputs.  A call the round does
\* not reach has no answer to choose: its input is fixed to one value.
IscAnswers(mallocOk, answers) == IF mallocOk THEN answers ELSE {SEC_E_OK}

CompleteAnswers(mallocOk, status) ==
  IF mallocOk /\ status \in {SEC_I_COMPLETE_AND_CONTINUE, SEC_I_COMPLETE_NEEDED}
    THEN OkOrError ELSE {SEC_E_OK}

QueryAnswers(mallocOk, status) ==
  IF mallocOk /\ status \in {SEC_I_COMPLETE_AND_CONTINUE, SEC_I_COMPLETE_NEEDED,
                             SEC_E_OK}
    THEN QueryStatuses ELSE {SEC_E_OK}

\* EncryptMessage is only called with a Message; with a table bound the call
\* is always made
EncryptAnswers(Message) == IF Message # NULL THEN OkOrError ELSE {SEC_E_OK}
UBAnswers(Message) ==
  IF (Message # NULL) /\ (ntlm.table = NULL) THEN BOOLEAN ELSE {TRUE}
\* QueryContextAttributes is only called with a table bound
SizeAnswers == IF ntlm.table # NULL THEN OkOrError ELSE {SEC_E_OK}

\* the releases are only issued with a table bound
ReleaseAnswers == IF ntlm.table # NULL THEN OkOrError ELSE {SEC_E_OK}

\* malloc is only called for a copy of valid arguments
MallocAnswers(copy, data, size) ==
  IF copy /\ (data # NULL) /\ (size # 0) THEN BOOLEAN ELSE {TRUE}

Next ==
  \/ \E http \in BOOLEAN, Bindings \in BindingsPointers, tableOk \in BOOLEAN,
        cat \in BOOLEAN, pkgStatus \in OkOrError, credStatus \in OkOrError :
       ntlm_client_init(http, Bindings, tableOk, cat, pkgStatus, credStatus)
  \/ \E copy \in BOOLEAN, args \in InputArgs :
       \E mallocOk \in MallocAnswers(copy, args[1], args[2]) :
         ntlm_client_set_input_buffer(copy, args[1], args[2], mallocOk)
  \/ \E mallocOk \in BOOLEAN :
       \E status \in IscAnswers(mallocOk, SecurityStatus) :
         \E cStatus \in CompleteAnswers(mallocOk, status),
            qStatus \in QueryAnswers(mallocOk, status) :
           ntlm_authenticate(mallocOk, status, cStatus, qStatus)
  \/ \E args \in EncryptArgs :
       \E encStatus \in EncryptAnswers(args[1]), ubInvoked \in UBAnswers(args[1]) :
         ntlm_client_encrypt(args[1], args[2], encStatus, ubInvoked)
  \/ \E qStatus \in SizeAnswers : ntlm_client_query_auth_size(qStatus)
  \/ \E credStatus \in ReleaseAnswers, pkgStatus \in ReleaseAnswers,
        ctxStatus \in ReleaseAnswers :
       ntlm_free(credStatus, pkgStatus, ctxStatus)

Spec == Init /\ [][Next]_vars

\* the same session driven against a provider that keeps to the handshake
NextInSequence ==
  \/ \E http \in BOOLEAN, Bindings \in BindingsPointers, tableOk \in BOOLEAN,
        cat \in BOOLEAN, pkgStatus \in OkOrError, credStatus \in OkOrError :
       ntlm_client_init(http, Bindings, tableOk, cat, pkgStatus, credStatus)
  \/ \E copy \in BOOLEAN, args \in InputArgs :
       \E mallocOk \in MallocAnswers(copy, args[1], args[2]) :
         ntlm_client_set_input_buffer(copy, args[1], args[2], mallocOk)
  \/ \E mallocOk \in BOOLEAN :
       \E status \in IscAnswers(mallocOk, InSequenceStatuses(prov.state)) :
         \E cStatus \in CompleteAnswers(mallocOk, status),
            qStatus \in QueryAnswers(mallocOk, status) :
           ntlm_authenticate(mallocOk, status, cStatus, qStatus)
  \/ \E args \in EncryptArgs :
       \E encStatus \in EncryptAnswers(args[1]), ubInvoked \in UBAnswers(args[1]) :
         ntlm_client_encrypt(args[1], args[2], encStatus, ubInvoked)
  \/ \E qStatus \in SizeAnswers : ntlm_client_query_auth_size(qStatus)
  \/ \E credStatus \in ReleaseAnswers, pkgStatus \in ReleaseAnswers,
        ctxStatus \in ReleaseAnswers :
       ntlm_free(credStatus, pkgStatus, ctxStatus)

SpecInSequence == Init /\ [][NextInSequence]_vars

(* ---- properties ---- *)

IsRound == call.op = "authenticate" /\ call.isc.called

Count(seq, x) == Cardinality({i \in DOMAIN seq : seq[i] = x})

\* C1: a round whose InitializeSecurityContext status is none of ok, continue,
\* complete-needed, complete-and-continue returns failure.
C1_FailureStatusReported ==
  (IsRound /\ call.status \notin {SEC_E_OK, SEC_I_CONTINUE_NEEDED,
                                  SEC_I_COMPLETE_NEEDED,
                                  SEC_I_COMPLETE_AND_CONTINUE})
    => ~call.ret

\* C2: a round that returns success reports continuationNeeded exactly when
\* its final classification is continue: the provider answered continue, or
\* complete-and-continue with finalization and size query both succeeding.
C2_ContinuationIffContinue ==
  (IsRound /\ call.ret)
    => (bContinueNeeded <=> call.status \in {SEC_I_CONTINUE_NEEDED,
                                             SEC_I_COMPLETE_AND_CONTINUE})

\* C3: the session never calls free on a buffer lent with copy = FALSE.
C3_LentNeverFreed ==
  \A i \in DOMAIN inBufs : (~inBufs[i].copy) => inBufs[i].frees = 0

\* C4: a buffer allocated by set_input_buffer(copy = TRUE) is freed exactly
\* once: never twice, still held by the session while it is not freed, and
\* freed once the session is torn down.
C4_CopiesFreedOnce ==
  \A i \in DOMAIN inBufs :
    inBufs[i].copy =>
      /\ inBufs[i].frees <= 1
      /\ (inBufs[i].frees = 0) => (alive /\ ntlm.inputBuffer0.pvBuffer = i)

\* C5: at most one output buffer is live, it is the one outputBuffer[0]
\* points to, no output buffer is freed twice and none outlives the session.
C5_OneLiveOutputBuffer ==
  /\ \A i \in DOMAIN outBufs : outBufs[i].frees <= 1
  /\ \A i \in DOMAIN outBufs :
       (outBufs[i].frees = 0) => (alive /\ ntlm.outputBuffer0.pvBuffer = i)
  /\ Cardinality({i \in DOMAIN outBufs : outBufs[i].frees = 0}) <= 1

\* two rounds allocated an output buffer each, then the session was torn down
C5_Witness ==
  /\ ~alive
  /\ Len(outBufs) = 2
  /\ outBufs[1].frees = 1
  /\ outBufs[2].frees = 1

\* C6: teardown releases nothing that was never acquired or is already
\* released: each provider release it issues is for a resource the session
\* obtained, and is issued once.
C6_TeardownReleasesOnlyAcquired ==
  (~alive) =>
    /\ Count(released, "FreeCredentialsHandle") <=
         (IF prov.credAcquired THEN 1 ELSE 0)
    /\ Count(released, "FreeContextBuffer") <=
         (IF ntlm.pPackageInfo # NULL THEN 1 ELSE 0)
    /\ Count(released, "DeleteSecurityContext") <=
         (IF prov.contexts > 0 THEN 1 ELSE 0)

\* C7: FreeCredentialsHandle is issued once, at teardown, when
\* AcquireCredentialsHandle succeeded, and not at all when it never did.
C7_CredentialReleasedOnceIffAcquired ==
  Count(released, "FreeCredentialsHandle") =
    (IF (~alive) /\ prov.credAcquired THEN 1 ELSE 0)

\* C8: the provider creates at most one context for a session: once it has
\* created one, every later InitializeSecurityContext call is given it.
C8_OneSecurityContext ==
  /\ prov.contexts <= 1
  /\ (IsRound /\ call.isc.priorContexts > 0) => call.isc.phContext

\* C9: once a round has returned success with continuationNeeded FALSE, no
\* later round returns success with continuationNeeded TRUE.
C9_NoContinueAfterComplete ==
  [][(sawComplete /\ rounds' = rounds + 1 /\ call'.ret) => ~bContinueNeeded']_vars

\* C10: set_input_buffer called with a NULL data pointer or a zero size
\* returns failure and changes no field of the session and no buffer.
C10_InvalidInputRejected ==
  [][(call'.op = "set_input_buffer" /\ (call'.data = NULL \/ call'.size = 0))
       => (~call'.ret /\ ntlm' = ntlm /\ inBufs' = inBufs /\ outBufs' = outBufs
           /\ prov' = prov /\ bContinueNeeded' = bContinueNeeded)]_vars

\* a zero size was rejected on a session that has had a round and holds a
\* pending input buffer
C10_Witness ==
  /\ call.op = "set_input_buffer"
  /\ call.data # NULL
  /\ call.size = 0
  /\ ~call.ret
  /\ ntlm.haveContext
  /\ ntlm.inputBuffer0.pvBuffer # NULL

IsEncrypt == call.op = "encrypt" /\ ~call.enc.ub

\* C11: encrypt on a session whose haveContext is FALSE returns failure and
\* does not call EncryptMessage (stated for the calls whose behaviour is
\* defined, that is with a provider table bound or a NULL Message).
C11_EncryptNeedsContext ==
  (IsEncrypt /\ ~ntlm.haveContext) => (~call.ret /\ ~call.enc.invoked)

\* C12: encrypt with a sequence number above ULONG_MAX returns failure, and
\* EncryptMessage is only ever called with the caller's sequence number.
C12_SequenceOverflowRejected ==
  IsEncrypt =>
    /\ (call.sequence > ULONG_MAX) => ~call.ret
    /\ call.enc.invoked => (call.enc.MessageSeqNo = call.sequence)

\* C13: HTTP mode, no channel bindings, provider answering continue then ok:
\* initialize succeeds when the provider's calls do; the first round returns
\* success with continuationNeeded TRUE and leaves an output token; after
\* set_input_buffer the second round returns success with continuationNeeded
\* FALSE.
C13_TwoRoundHandshake ==
  [][/\ (call'.op = "init" /\ call'.status = SEC_E_OK) => call'.ret
     /\ (/\ rounds = 0 /\ rounds' = 1
         /\ call.op = "init" /\ call.ret
         /\ ntlm.http /\ ntlm.Bindings = NULL
         /\ call'.status = SEC_I_CONTINUE_NEEDED)
        => /\ call'.ret
           /\ bContinueNeeded'
           /\ ntlm'.outputBuffer0.pvBuffer # NULL
           /\ ntlm'.outputBuffer0.cbBuffer > 0
     /\ (/\ rounds = 1 /\ rounds' = 2
         /\ firstContinue
         /\ call.op = "set_input_buffer" /\ call.ret
         /\ ntlm.http /\ ntlm.Bindings = NULL
         /\ call'.status = SEC_E_OK /\ call'.isc.qStatus = SEC_E_OK)
        => (call'.ret /\ ~bContinueNeeded')]_vars

\* the second round of such a handshake has returned
C13_Witness ==
  /\ rounds = 2
  /\ firstContinue
  /\ IsRound /\ call.ret /\ ~bContinueNeeded
  /\ call.status = SEC_E_OK
  /\ ntlm.http /\ ntlm.Bindings = NULL
  /\ call.isc.pInput.cBuffers = 1
  /\ call.isc.pInput.b0.pvBuffer # NULL

\* C14: an input descriptor passed to the provider has two buffers when
\* channel bindings were supplied, a token and a channel-binding buffer that
\* holds the caller's pointer and length, and one token buffer otherwise.
C14_DescriptorShape ==
  (IsRound /\ call.isc.pInput.cBuffers > 0) =>
    /\ call.isc.pInput.b0.BufferType = SECBUFFER_TOKEN
    /\ IF ntlm.Bindings # NULL
         THEN /\ call.isc.pInput.cBuffers = 2
              /\ call.isc.pInput.b1 =
                   [BufferType |-> SECBUFFER_CHANNEL_BINDINGS,
                    cbBuffer |-> BindingsLength, pvBuffer |-> ntlm.Bindings]
              /\ ntlm.Bindings = CALLER_BINDINGS
         ELSE call.isc.pInput.cBuffers = 1

\* a round handed the provider a token and the caller's channel bindings
C14_Witness ==
  /\ IsRound
  /\ ntlm.Bindings # NULL
  /\ call.isc.pInput.cBuffers = 2
  /\ call.isc.pInput.b0.pvBuffer # NULL

\* C15 as stated: every round whose status is ok, continue, complete-needed
\* or complete-and-continue queries the sizes, and a query that does not
\* return ok makes the round fail.
C15_QueriesOnEveryNonFailure ==
  (IsRound /\ call.status \in {SEC_E_OK, SEC_I_CONTINUE_NEEDED,
                               SEC_I_COMPLETE_NEEDED,
                               SEC_I_COMPLETE_AND_CONTINUE})
    => /\ call.isc.queried
       /\ (call.isc.qStatus # SEC_E_OK) => ~call.ret

\* C15 as amended: a round queries the sizes exactly when its status is ok,
\* complete-needed or complete-and-continue and its finalization call, if
\* made, returned ok; a query that does not return ok makes the round fail.
C15_QueriesOnCompletingStatuses ==
  IsRound =>
    /\ call.isc.queried <=>
         (/\ call.status \in {SEC_E_OK, SEC_I_COMPLETE_NEEDED,
                              SEC_I_COMPLETE_AND_CONTINUE}
          /\ call.isc.cStatus \in {"none", SEC_E_OK})
    /\ (call.isc.queried /\ call.isc.qStatus # SEC_E_OK) => ~call.ret

\* a round failed because its size query did
C15_Witness ==
  /\ IsRound
  /\ call.isc.queried
  /\ call.isc.qStatus # SEC_E_OK
  /\ ~call.ret

\* C16: a round passes an input descriptor exactly when an input token is
\* present: a descriptor passed holds a token pointer, and when none is
\* passed the session holds no token.
C16_DescriptorIffTokenPresent ==
  IsRound =>
    IF call.isc.pInput.cBuffers > 0
      THEN call.isc.pInput.b0.pvBuffer # NULL
      ELSE ntlm.inputBuffer0.pvBuffer = NULL

\* C17: initialize sets the request flags by mode, no other operation changes
\* them, and every InitializeSecurityContext call receives them.
C17_RequestFlagsFixed ==
  [][/\ (call'.op = "init" /\ call'.ret) =>
          ntlm'.fContextReq =
            (IF ntlm'.http
               THEN {ISC_REQ_CONFIDENTIALITY}
               ELSE {ISC_REQ_MUTUAL_AUTH, ISC_REQ_REPLAY_DETECT,
                     ISC_REQ_SEQUENCE_DETECT, ISC_REQ_DELEGATE,
                     ISC_REQ_USE_DCE_STYLE})
     /\ (call'.op # "init") => (ntlm'.fContextReq = ntlm.fContextReq)
     /\ (rounds' = rounds + 1 /\ call'.isc.called) =>
          (call'.isc.fContextReq = ntlm.fContextReq)]_vars

\* the second round of a non-HTTP session received the flags of its mode
C17_Witness ==
  /\ IsRound
  /\ rounds = 2
  /\ ~ntlm.http
  /\ ntlm.credentials # NULL
  /\ call.isc.fContextReq = {ISC_REQ_MUTUAL_AUTH, ISC_REQ_REPLAY_DETECT,
                             ISC_REQ_SEQUENCE_DETECT, ISC_REQ_DELEGATE,
                             ISC_REQ_USE_DCE_STYLE}

\* C18: with the table bound, teardown issues the three releases in order
\* and unbinds the table, whatever the releases return.
C18_TeardownUnconditional ==
  [][(call'.op = "free" /\ alive /\ ntlm.table # NULL) =>
       /\ released' = released \o <<"FreeCredentialsHandle", "FreeContextBuffer",
                                    "DeleteSecurityContext">>
       /\ ntlm'.table = NULL
       /\ ~alive'
       /\ call'.ret]_vars

\* a teardown whose first two releases failed
C18_Witness ==
  /\ call.op = "free"
  /\ Len(call.relStatus) = 3
  /\ call.relStatus[1] # SEC_E_OK
  /\ call.relStatus[2] # SEC_E_OK
  /\ Len(released) = 3

\* C19: a round that returns failure leaves haveContext, haveInputBuffer and
\* the pending input buffer as they were; a round that returns success sets
\* both flags and frees and clears the input pointer it consumed; no other
\* operation sets a flag.
C19_FailedRoundKeepsInput ==
  [][/\ (rounds' = rounds + 1 /\ ~call'.ret) =>
          /\ ntlm'.haveContext = ntlm.haveContext
          /\ ntlm'.haveInputBuffer = ntlm.haveInputBuffer
          /\ ntlm'.inputBuffer0.pvBuffer = ntlm.inputBuffer0.pvBuffer
          /\ inBufs' = inBufs
     /\ (rounds' = rounds + 1 /\ call'.ret) =>
          /\ ntlm'.haveContext /\ ntlm'.haveInputBuffer
          /\ ntlm.haveInputBuffer =>
               /\ ntlm'.inputBuffer0.pvBuffer = NULL
               /\ \A i \in DOMAIN inBufs :
                    inBufs'[i].frees =
                      inBufs[i].frees +
                        (IF i = ntlm.inputBuffer0.pvBuffer THEN 1 ELSE 0)
     /\ (rounds' = rounds) =>
          /\ ntlm'.haveContext => ntlm.haveContext
          /\ ntlm'.haveInputBuffer => ntlm.haveInputBuffer]_vars

\* a later round failed and the session still holds the pending input
C19_Witness ==
  /\ IsRound
  /\ ~call.ret
  /\ ntlm.haveInputBuffer
  /\ ntlm.inputBuffer0.pvBuffer # NULL

====
